---- MODULE Spec2Model ----
(***************************************************************************)
(* kingler: a terminal tool that prints the colour-script art of a         *)
(* creature of an embedded dataset, optionally with a localized            *)
(* description and a stats table.  The model follows src/src/main.rs       *)
(* (show_random_pokemon, show_pokemon_by_name, track_encounter),           *)
(* src/src/ascii.rs (the three print routines), src/src/description.rs     *)
(* and src/src/shiny_hunting.rs.                                           *)
(*                                                                         *)
(* A string is a sequence of characters, each character a one-character    *)
(* TLA+ string.  A few fixed pieces of text that the program only ever     *)
(* copies to the output (a form name, a language code, a slug, an escape   *)
(* sequence, a literal of a format string) are kept as one element.        *)
(***************************************************************************)
EXTENDS Integers, Sequences, FiniteSets, TLC

VARIABLES
    db,        \* the dataset: Vec<Pokemon>, loaded once (main.rs:445-446)
    config,    \* Config: language, shiny_rate, (shiny_log_path is fixed)
    tracker,   \* the file pokedex.json: EncounteredPokemonTracker.encounters
    shinyLog,  \* the file at config.shiny_log_path: "absent" or its entries
    cmd,       \* the command of the last invocation: "none", "random", "name"
    req,       \* the cli::Random or cli::Name of the last invocation
    shown,     \* the cli::Name handed to show_pokemon_by_name by it
    sel,       \* what show_random_pokemon selected: range, record
    desc,      \* desc_lines of the last invocation
    out,       \* the rows the last invocation printed on stdout
    events,    \* the effects of the last invocation, in program order
    result     \* how the last invocation ended

vars == <<db, config, tracker, shinyLog, cmd, req, shown, sel, desc, out, events, result>>

-----------------------------------------------------------------------------
(* Bounds of the model.                                                    *)

\* Longest generation filter that is enumerated character by character.
MaxFilterLen == 3
\* Largest --padding-left that is enumerated.
MaxPadding == 2
\* Largest number of entries of the shiny log that is explored.
MaxLog == 2
\* Longest art text, and most description lines, given to the print routines.
MaxArtLen == 5
MaxDesc == 3

-----------------------------------------------------------------------------
(* Strings.                                                                *)

Max(a, b) == IF a >= b THEN a ELSE b
Min(a, b) == IF a <= b THEN a ELSE b

Range(s) == {s[i] : i \in 1..Len(s)}

\* All sequences over S of length at most n.
SeqUpTo(S, n) == UNION {[1..k -> S] : k \in 0..n}

Spaces(n) == [i \in 1..n |-> " "]

\* format!("{: <1$}", s, width): s left-aligned in a field of at least
\* `width` columns, filled with spaces on the right; never truncated.
PadField(s, width) == s \o Spaces(Max(0, width - Len(s)))

DigitChar(d) == CASE d = 0 -> "0" [] d = 1 -> "1" [] d = 2 -> "2" [] d = 3 -> "3"
                  [] d = 4 -> "4" [] d = 5 -> "5" [] d = 6 -> "6" [] d = 7 -> "7"
                  [] d = 8 -> "8" [] d = 9 -> "9"

\* format!("{}", n) of a usize: its decimal digits.
RECURSIVE Decimal(_)
Decimal(n) == IF n < 10 THEN <<DigitChar(n)>>
              ELSE Decimal(n \div 10) \o <<DigitChar(n % 10)>>

Digits == {"0", "1", "2", "3", "4", "5", "6", "7", "8", "9"}

DigitVal(c) == CASE c = "0" -> 0 [] c = "1" -> 1 [] c = "2" -> 2 [] c = "3" -> 3
                 [] c = "4" -> 4 [] c = "5" -> 5 [] c = "6" -> 6 [] c = "7" -> 7
                 [] c = "8" -> 8 [] c = "9" -> 9

RECURSIVE DigitsValue(_)
DigitsValue(s) == IF s = <<>> THEN 0
                  ELSE 10 * DigitsValue(SubSeq(s, 1, Len(s) - 1)) + DigitVal(s[Len(s)])

\* The result of a failed parse.
ParseErr == -1

U8Max == 255

\* str::parse::<u8>: an optional "+", then one or more decimal digits, the
\* value at most u8::MAX; anything else (the empty string, a sign alone, any
\* other character, an overflow) is an error.
ParseU8(s) ==
    LET body == IF s # <<>> /\ s[1] = "+" THEN Tail(s) ELSE s
    IN  IF body = <<>> \/ \E i \in 1..Len(body) : body[i] \notin Digits THEN ParseErr
        ELSE IF DigitsValue(body) > U8Max THEN ParseErr ELSE DigitsValue(body)

\* Index of the first occurrence of c in s, 0 when there is none.
FirstIndex(s, c) ==
    IF \E i \in 1..Len(s) : s[i] = c
    THEN CHOOSE i \in 1..Len(s) : s[i] = c /\ \A j \in 1..(i - 1) : s[j] # c
    ELSE 0

\* str::split_once(c): <<>> for None, else <<before, after>> of the first c.
SplitOnce(s, c) ==
    LET i == FirstIndex(s, c)
    IN  IF i = 0 THEN <<>> ELSE <<SubSeq(s, 1, i - 1), SubSeq(s, i + 1, Len(s))>>

\* str::split(c).collect(): the pieces between the occurrences of c; one
\* (empty) piece for the empty string.
RECURSIVE Split(_, _)
Split(s, c) ==
    LET i == FirstIndex(s, c)
    IN  IF i = 0 THEN <<s>>
        ELSE <<SubSeq(s, 1, i - 1)>> \o Split(SubSeq(s, i + 1, Len(s)), c)

\* str::lines().collect(): the text split at "\n", a final empty piece (the
\* text is empty or ends with "\n") left out.  (lines() also drops a "\r"
\* before a "\n"; the texts enumerated here hold no carriage return.)
RECURSIVE Lines(_)
Lines(text) ==
    LET i == FirstIndex(text, "\n")
    IN  IF text = <<>> THEN <<>>
        ELSE IF i = 0 THEN <<text>>
        ELSE <<SubSeq(text, 1, i - 1)>> \o Lines(SubSeq(text, i + 1, Len(text)))

-----------------------------------------------------------------------------
(* The dataset (src/src/pokemon.rs) and the embedded art (main.rs:39-41).  *)

\* Some(v) / None of Option<T>, for values that are not sequences.
Some(v) == <<v>>
None == <<>>

\* Characters written out as strings.
Str_Mew == <<"M", "e", "w">>
Str_Muk == <<"M", "u", "k">>
Str_Grotadmorv == <<"G", "r", "o", "t", "a", "d", "m", "o", "r", "v">>
Str_Natu == <<"N", "a", "t", "u">>
Str_Gengar == <<"G", "e", "n", "g", "a", "r">>
Str_Ectoplasma == <<"E", "c", "t", "o", "p", "l", "a", "s", "m", "a">>
Str_Absol == <<"A", "b", "s", "o", "l">>

\* A map (HashMap<K, V>) is a function whose domain is the set of its keys.
EmptyMap == [k \in {} |-> <<>>]

\* Records of the dataset: struct Pokemon.  `forms` is read by
\* show_random_pokemon (main.rs:182); `stats` is Option<HashMap>.
Mew == [slug |-> "mew", gen |-> 1,
        name |-> [l \in {"en", "fr"} |-> Str_Mew],
        desc |-> [l \in {"en", "fr"} |->
                    IF l = "en"
                    THEN [g \in {"red", "gold"} |->
                            IF g = "red" THEN <<"a", "b", "\n", "c">>
                            ELSE <<"d", "\n">>]
                    ELSE [g \in {"red"} |-> <<"e", "\n", "\n", "f", "g">>]],
        forms |-> <<>>,
        stats |-> Some([k \in {"hp", "attack", "defense", "special-attack",
                               "special-defense", "speed"} |->
                          IF k = "hp" THEN 100 ELSE 7])]

Muk == [slug |-> "muk", gen |-> 1,
        name |-> [l \in {"en", "fr"} |-> IF l = "en" THEN Str_Muk ELSE Str_Grotadmorv],
        desc |-> [l \in {"en"} |-> [g \in {"blue"} |-> <<"h">>]],
        forms |-> <<"alola">>,
        stats |-> Some([k \in {"hp", "attack"} |-> IF k = "hp" THEN 105 ELSE 9])]

Natu == [slug |-> "natu", gen |-> 2,
         name |-> [l \in {"en"} |-> Str_Natu],
         desc |-> [l \in {"en"} |-> EmptyMap],
         forms |-> <<>>,
         stats |-> None]

Gengar == [slug |-> "gengar", gen |-> 1,
           name |-> [l \in {"en", "fr"} |-> IF l = "en" THEN Str_Gengar ELSE Str_Ectoplasma],
           desc |-> [l \in {"fr"} |-> [g \in {"red", "blue"} |->
                                         IF g = "red" THEN <<"i", "\n", "j">> ELSE <<"k">>]],
           forms |-> <<"mega", "gmax">>,
           stats |-> Some(EmptyMap)]

Absol == [slug |-> "absol", gen |-> 3,
          name |-> [l \in {"en"} |-> Str_Absol],
          desc |-> EmptyMap,
          forms |-> <<"mega">>,
          stats |-> None]

\* The records a dataset of the model is made of, in file order.
Pool == <<Mew, Muk, Natu, Gengar, Absol>>

\* The subsequences of s, each keeping the order of s.
RECURSIVE SubSeqs(_)
SubSeqs(s) ==
    IF s = <<>> THEN {<<>>}
    ELSE LET rest == SubSeqs(Tail(s))
         IN  rest \cup {<<Head(s)>> \o t : t \in rest}

\* The datasets explored: every selection of records of the pool.
Datasets == SubSeqs(Pool)

\* The art files embedded in the binary: colorscripts/{shiny,regular}/<slug>
\* for every record, the slug followed by "-<form>" for each of its forms.
\* A path is <<"shiny" or "regular", slug>> with slug a sequence of pieces.
ArtOf(slug) ==
    CASE slug = "mew"    -> <<"#", "#", "\n", "#", "\n", "#", "#", "#">>
      [] slug = "muk"    -> <<"#", "\n">>
      [] slug = "natu"   -> <<"#", "#", "\n", "#">>
      [] slug = "gengar" -> <<"#", "\n", "#", "#", "\n", "#", "\n", "#", "#">>
      [] slug = "absol"  -> <<>>

\* Asset::get(path): Some(bytes as text) or None.
AssetGet(path) ==
    LET hits == {i \in 1..Len(Pool) :
                   \/ path[2] = <<Pool[i].slug>>
                   \/ \E f \in Range(Pool[i].forms) : path[2] = <<Pool[i].slug, "-", f>>}
    IN  IF path[1] \in {"shiny", "regular"} /\ hits # {}
        THEN Some(ArtOf(Pool[CHOOSE i \in hits : TRUE].slug))
        ELSE None
-----------------------------------------------------------------------------
(* Printing the art (src/src/ascii.rs).  Each operator is the sequence of  *)
(* rows the routine writes to stdout, one row per println!.                *)

\* The escape sequences around a description line, and the separator.
StyleOn == "\\x1b[37m"
StyleOff == "\\x1b[0m"
Tab == "\t"

\* desc_lines.iter().map(|line| line.len()).max().unwrap_or(0)
DescWidth(desc_lines) ==
    IF desc_lines = <<>> THEN 0
    ELSE CHOOSE w \in {Len(desc_lines[i]) : i \in 1..Len(desc_lines)} :
            \A i \in 1..Len(desc_lines) : Len(desc_lines[i]) <= w

\* println!("\x1b[37m{: <1$}\x1b[0m", line, description_padding)
StyledLine(line, desc_lines, padding_left) ==
    <<StyleOn>> \o PadField(line, padding_left + DescWidth(desc_lines) + 1) \o <<StyleOff>>

\* println!("{: <1$}No descriptions available for language: {} {}",
\*          "", padding_left, language)
\* The first placeholder takes "" with the width of argument 1; the two {}
\* take the next arguments in turn, which are padding_left and language.
NoDescNotice(padding_left, language) ==
    PadField(<<>>, padding_left)
        \o <<"No descriptions available for language: ">>
        \o Decimal(padding_left) \o <<" ">> \o <<language>>

\* Mutant: the description always starts at the midpoint.
StartIndexMid(n) == n \div 2

\* The row at which the description starts (ascii.rs:19-26), 0-based.
StartIndex(n) ==
    LET mid_index == n \div 2
    IN  IF n >= 3 THEN Max(0, mid_index - 1) ELSE mid_index

\* Row i (0-based) of the loop of draw_pokemon_art (ascii.rs:29-45).
ArtRow(lines, desc_lines, padding_left, i) ==
    LET start_index == StartIndex(Len(lines))
    IN  PadField(lines[i + 1], padding_left) \o <<Tab, Tab>>
          \o (IF i >= start_index /\ i - start_index < Len(desc_lines)
              THEN StyledLine(desc_lines[i - start_index + 1], desc_lines, padding_left)
              ELSE <<>>)

\* The description lines that found no art row printed on rows of their own
\* after the art.
DrawPokemonArtRest(art, desc_lines, padding_left, language) ==
    LET lines == Lines(art)
        used == Min(Len(desc_lines), Len(lines) - StartIndex(Len(lines)))
    IN  [i \in 1..Len(lines) |-> ArtRow(lines, desc_lines, padding_left, i - 1)]
          \o [j \in 1..(Len(desc_lines) - used) |->
                PadField(<<>>, padding_left) \o <<Tab, Tab>>
                  \o StyledLine(desc_lines[used + j], desc_lines, padding_left)]
          \o (IF desc_lines = <<>> THEN <<NoDescNotice(padding_left, language)>> ELSE <<>>)

\* draw_pokemon_art(art, desc_lines, padding_left, language)
DrawPokemonArt(art, desc_lines, padding_left, language) ==
    LET lines == Lines(art)
    IN  [i \in 1..Len(lines) |-> ArtRow(lines, desc_lines, padding_left, i - 1)]
          \o (IF desc_lines = <<>> THEN <<NoDescNotice(padding_left, language)>> ELSE <<>>)

\* print_ascii_art(art, padding_left)
PrintAsciiArt(art, padding_left) ==
    LET lines == Lines(art)
    IN  [i \in 1..Len(lines) |-> PadField(lines[i], padding_left)]

\* Mutant: no more description rows than art rows, as beside the art.
DrawPokemonArtUnderCut(art, desc_lines, padding_left, language) ==
    PrintAsciiArt(art, padding_left)
      \o (IF desc_lines # <<>>
          THEN [j \in 1..Min(Len(desc_lines), Len(Lines(art))) |->
                  StyledLine(desc_lines[j], desc_lines, padding_left)]
          ELSE <<NoDescNotice(padding_left, language)>>)

\* draw_pokemon_art_under(art, desc_lines, padding_left, language)
DrawPokemonArtUnder(art, desc_lines, padding_left, language) ==
    PrintAsciiArt(art, padding_left)
      \o (IF desc_lines # <<>>
          THEN [j \in 1..Len(desc_lines) |->
                  StyledLine(desc_lines[j], desc_lines, padding_left)]
          ELSE <<NoDescNotice(padding_left, language)>>)

-----------------------------------------------------------------------------
(* The stats table (src/src/stats.rs).                                     *)

Str_hp == <<"h", "p">>
Str_speed == <<"s", "p", "e", "e", "d">>
Str_attack == <<"a", "t", "t", "a", "c", "k">>
Str_defense == <<"d", "e", "f", "e", "n", "s", "e">>
Str_special == <<"s", "p", "e", "c", "i", "a", "l", "-">>

\* A stat name written out.
StatLabel(k) ==
    CASE k = "hp" -> Str_hp
      [] k = "speed" -> Str_speed
      [] k = "attack" -> Str_attack
      [] k = "defense" -> Str_defense
      [] k = "special-attack" -> Str_special \o Str_attack
      [] k = "special-defense" -> Str_special \o Str_defense

\* The six stats paired in declaration order instead of the table's order.
StatPairsInOrder == <<<<"hp", "attack">>, <<"defense", "special-attack">>,
                      <<"special-defense", "speed">>>>

\* stat_pairs (stats.rs:14-18)
StatPairs == <<<<"hp", "speed">>, <<"attack", "special-attack">>,
               <<"defense", "special-defense">>>>

\* stats.get(k).unwrap_or(&0)
StatValue(stats, k) == IF k \in DOMAIN stats THEN stats[k] ELSE 0

LabelWidth == 15
ValueWidth == 5

\* println!("{:<15} {:<5}  {:<15} {}", format!("{}:", stat1), value1,
\*          format!("{}:", stat2), value2)
StatRow(stats, pair) ==
    PadField(StatLabel(pair[1]) \o <<":">>, LabelWidth) \o <<" ">>
      \o PadField(Decimal(StatValue(stats, pair[1])), ValueWidth) \o <<" ", " ">>
      \o PadField(StatLabel(pair[2]) \o <<":">>, LabelWidth) \o <<" ">>
      \o Decimal(StatValue(stats, pair[2]))

\* display_pokemon_stats(pokemon): the rows printed.  The notice starts
\* with "\n", so an empty row comes before it (its "e" with an acute accent
\* is written as a plain "e" here).
DisplayPokemonStats(pokemon) ==
    IF pokemon.stats # None
    THEN [i \in 1..Len(StatPairs) |-> StatRow(pokemon.stats[1], StatPairs[i])]
    ELSE <<<<>>, <<"Stats not available for this Pokemon.">>>>
-----------------------------------------------------------------------------
(* Errors (src/src/error.rs) and the ways an invocation ends.              *)

Ok == [kind |-> "Ok", arg |-> <<>>]
\* The error carrying only the part of the name before the first "-".
InvalidPokemonSlugPart(name) == [kind |-> "InvalidPokemon", arg |-> <<name[1]>>]

InvalidPokemon(name) == [kind |-> "InvalidPokemon", arg |-> name]
InvalidLanguage(code) == [kind |-> "InvalidLanguage", arg |-> <<code>>]
InvalidGeneration(raw) == [kind |-> "InvalidGeneration", arg |-> raw]
\* panic!("Could not read pokemon art of '{}'", slug)
ArtPanic(slug) == [kind |-> "Panic", arg |-> slug]

-----------------------------------------------------------------------------
(* The description of a record (main.rs:307-358, description.rs).  Each    *)
(* operator is the set of values the random choice can produce.            *)

\* Mutant: a language that is not there falls back to any language.
GetRandomDescriptionAnyLanguage(pokemon, language) ==
    LET any == UNION {{Lines(pokemon.desc[l][g]) : g \in DOMAIN pokemon.desc[l]} :
                        l \in DOMAIN pokemon.desc}
    IN  IF language \in DOMAIN pokemon.desc /\ DOMAIN pokemon.desc[language] # {}
        THEN {Lines(pokemon.desc[language][g]) : g \in DOMAIN pokemon.desc[language]}
        ELSE IF any = {} THEN {<<>>} ELSE any

\* get_random_description(pokemon, config)
GetRandomDescription(pokemon, language) ==
    IF language \in DOMAIN pokemon.desc /\ DOMAIN pokemon.desc[language] # {}
    THEN {Lines(pokemon.desc[language][g]) : g \in DOMAIN pokemon.desc[language]}
    ELSE {<<>>}

\* desc_lines of show_pokemon_by_name, game_info empty (main.rs:308-324).
UnnamedDescription(pokemon, name, language) ==
    IF name.info /\ language \in DOMAIN pokemon.desc
                 /\ DOMAIN pokemon.desc[language] # {}
    THEN {Lines(pokemon.desc[language][g]) : g \in DOMAIN pokemon.desc[language]}
    ELSE {<<>>}

\* Mutant: a variant that is not there gives no description.
NamedDescriptionStrict(pokemon, name, language) ==
    IF name.info /\ language \in DOMAIN pokemon.desc
                 /\ name.game_info \in DOMAIN pokemon.desc[language]
    THEN {Lines(pokemon.desc[language][name.game_info])}
    ELSE {<<>>}

\* desc_lines of show_pokemon_by_name, game_info given (main.rs:346-358).
NamedDescription(pokemon, name, language) ==
    IF name.info
    THEN IF language \in DOMAIN pokemon.desc
         THEN IF name.game_info \in DOMAIN pokemon.desc[language]
              THEN {Lines(pokemon.desc[language][name.game_info])}
              ELSE GetRandomDescription(pokemon, language)
         ELSE GetRandomDescription(pokemon, language)
    ELSE {<<>>}

DescLines(pokemon, name, language) ==
    IF name.game_info = "" THEN UnnamedDescription(pokemon, name, language)
    ELSE NamedDescription(pokemon, name, language)

-----------------------------------------------------------------------------
(* show_pokemon_by_name (main.rs:272-390).                                 *)

\* The lookup by the part of the name before the first "-".
FindBySlugPart(pokemon_db, slug) ==
    IF \E i \in 1..Len(pokemon_db) : pokemon_db[i].slug = slug[1]
    THEN CHOOSE i \in 1..Len(pokemon_db) :
            /\ pokemon_db[i].slug = slug[1]
            /\ \A j \in 1..(i - 1) : pokemon_db[j].slug # slug[1]
    ELSE 0

\* pokemon_db.iter().find(|p| p.slug == name.name): the index of the first
\* record with that slug, 0 for None.
FindBySlug(pokemon_db, slug) ==
    IF \E i \in 1..Len(pokemon_db) : <<pokemon_db[i].slug>> = slug
    THEN CHOOSE i \in 1..Len(pokemon_db) :
            /\ <<pokemon_db[i].slug>> = slug
            /\ \A j \in 1..(i - 1) : <<pokemon_db[j].slug>> # slug
    ELSE 0

\* The slug of the art file (main.rs:279-283).
ArtSlug(name) ==
    IF name.form = "regular" THEN name.name ELSE name.name \o <<"-", name.form>>

\* art_path (main.rs:285-289)
ArtPath(name) == <<IF name.shiny THEN "shiny" ELSE "regular", ArtSlug(name)>>

\* The title row (main.rs:301-305).
TitleRow(pokemon_name, name) ==
    PadField(pokemon_name, name.padding_left)
      \o (IF name.form = "regular" THEN <<>> ELSE <<" (", name.form, ")">>)

\* The rows of the art and the description (main.rs:326-344, 359-377).
Render(art, desc_lines, name, language) ==
    IF name.info
    THEN IF name.under
         THEN DrawPokemonArtUnder(art, desc_lines, name.padding_left, language)
         ELSE DrawPokemonArt(art, desc_lines, name.padding_left, language)
    ELSE PrintAsciiArt(art, name.padding_left)

\* The name looked up whether or not the title is shown.
ShowFoundNameAlways(pokemon, art, name, language, desc_lines) ==
    IF language \notin DOMAIN pokemon.name
    THEN [result |-> InvalidLanguage(language), out |-> <<>>,
          events |-> <<"asset">>, desc |-> <<>>]
    ELSE [result |-> Ok,
          out |-> (IF name.no_title THEN <<>>
                   ELSE <<TitleRow(pokemon.name[language], name)>>)
                  \o Render(art, desc_lines, name, language)
                  \o (IF name.stats THEN DisplayPokemonStats(pokemon) ELSE <<>>),
          events |-> <<"asset">> \o (IF name.no_title THEN <<>> ELSE <<"title">>)
                       \o <<"art">> \o (IF name.stats THEN <<"stats">> ELSE <<>>),
          desc |-> desc_lines]

\* The part of show_pokemon_by_name after the art was read (main.rs:296-383),
\* with desc_lines the description the random choice produced.
ShowFound(pokemon, art, name, language, desc_lines) ==
    IF ~name.no_title /\ language \notin DOMAIN pokemon.name
    THEN [result |-> InvalidLanguage(language), out |-> <<>>,
          events |-> <<"asset">>, desc |-> <<>>]
    ELSE [result |-> Ok,
          out |-> (IF name.no_title THEN <<>>
                   ELSE <<TitleRow(pokemon.name[language], name)>>)
                  \o Render(art, desc_lines, name, language)
                  \o (IF name.stats THEN DisplayPokemonStats(pokemon) ELSE <<>>),
          events |-> <<"asset">> \o (IF name.no_title THEN <<>> ELSE <<"title">>)
                       \o <<"art">> \o (IF name.stats THEN <<"stats">> ELSE <<>>),
          desc |-> desc_lines]

\* The title printed as soon as the record is found, before the art is read.
ShowPokemonByNameTitleFirst(name, pokemon_db, language) ==
    LET i == FindBySlug(pokemon_db, name.name)
        titled == i # 0 /\ ~name.no_title /\ language \in DOMAIN pokemon_db[i].name
    IN  IF i = 0
        THEN {[result |-> InvalidPokemon(name.name), out |-> <<>>,
               events |-> <<>>, desc |-> <<>>]}
        ELSE IF AssetGet(ArtPath(name)) = None
        THEN {[result |-> ArtPanic(ArtSlug(name)),
               out |-> IF titled THEN <<TitleRow(pokemon_db[i].name[language], name)>>
                       ELSE <<>>,
               events |-> IF titled THEN <<"title", "asset">> ELSE <<"asset">>,
               desc |-> <<>>]}
        ELSE {ShowFound(pokemon_db[i], AssetGet(ArtPath(name))[1], name, language, d) :
                d \in DescLines(pokemon_db[i], name, language)}

\* show_pokemon_by_name(name, pokemon_db, config): the set of its outcomes,
\* each the result, the rows printed, the effects in order and desc_lines.
ShowPokemonByName(name, pokemon_db, language) ==
    LET i == FindBySlug(pokemon_db, name.name)
    IN  IF i = 0
        THEN {[result |-> InvalidPokemon(name.name), out |-> <<>>,
               events |-> <<>>, desc |-> <<>>]}
        ELSE IF AssetGet(ArtPath(name)) = None
        THEN {[result |-> ArtPanic(ArtSlug(name)), out |-> <<>>,
               events |-> <<"asset">>, desc |-> <<>>]}
        ELSE {ShowFound(pokemon_db[i], AssetGet(ArtPath(name))[1], name, language, d) :
                d \in DescLines(pokemon_db[i], name, language)}

-----------------------------------------------------------------------------
(* The files kept between invocations.                                     *)

\* A file: whether it exists, whether its content is a JSON document, and the
\* entries of that document.
NoFile == [exists |-> FALSE, json |-> FALSE, entries |-> <<>>]
File(entries) == [exists |-> TRUE, json |-> TRUE, entries |-> entries]

\* A file of zero bytes.
ZeroBytes == [exists |-> TRUE, json |-> FALSE, entries |-> <<>>]

\* The tracker file written with no encounters on every call.
InitializeTrackerReset(file) == File(<<>>)

\* initialize_tracker (main.rs:427-441): the tracker file is created, with no
\* encounters, when it does not exist.
InitializeTracker(file) == IF file.exists THEN file ELSE File(<<>>)

\* The name pushed and the file written without the look for the name.
TrackEncounterAlways(file, pokemon_name) == File(Append(file.entries, pokemon_name))

\* track_encounter (main.rs:56-86): the file after the call.  A file that
\* cannot be read counts as one with no encounters.
TrackEncounter(file, pokemon_name) ==
    IF \E i \in 1..Len(file.entries) : file.entries[i] = pokemon_name
    THEN file
    ELSE File(Append(file.entries, pokemon_name))

\* What track_encounter prints (main.rs:82-84).
TrackNotice(file, pokemon_name, unique) ==
    IF unique /\ \E i \in 1..Len(file.entries) : file.entries[i] = pokemon_name
    THEN <<pokemon_name \o <<" has already been encountered.">>>>
    ELSE <<>>

\* chrono::Local::now().format("%d-%m-%Y %H:%M"): the clock is not modelled,
\* every entry carries the same date.
Now == <<"02-11-2026 12:00">>

\* The entry naming the regular form whatever form was chosen.
ShinyEntryRegular(pokemon_name, form) ==
    [pokemon_name |-> pokemon_name, form |-> "regular", date |-> Now,
     details |-> <<"Encountered shiny ">> \o pokemon_name \o <<" ", "regular", "!">>]

\* shiny_entry (main.rs:216-221)
ShinyEntry(pokemon_name, form) ==
    [pokemon_name |-> pokemon_name, form |-> form, date |-> Now,
     details |-> <<"Encountered shiny ">> \o pokemon_name \o <<" ", form, "!">>]

\* The file written back holding the new entry alone.
LogShinyCaptureRewrite(file, entry) == File(<<entry>>)

\* log_shiny_capture (shiny_hunting.rs:14-37): a missing file is created with
\* zero bytes, a file of zero bytes gets "[]", then the array is read,
\* extended by the entry and written back.
LogShinyCapture(file, entry) ==
    LET opened == IF file.exists THEN file ELSE ZeroBytes
        initialised == IF opened = ZeroBytes THEN File(<<>>) ELSE opened
    IN  File(Append(initialised.entries, entry))

\* load_shiny_log (shiny_hunting.rs:40-44): None (an error) when the file
\* cannot be read or is no JSON document, else the entries.
LoadShinyLog(file) == IF file.exists /\ file.json THEN Some(file.entries) ELSE None
-----------------------------------------------------------------------------
(* show_random_pokemon (main.rs:129-253).                                  *)

\* Mutant: the two bounds of a list are drawn independently.
GenBoundsTwoDraws(generations) ==
    IF SplitOnce(generations, "-") # <<>>
    THEN {SplitOnce(generations, "-")}
    ELSE {<<Split(generations, ",")[i], Split(generations, ",")[j]>> :
            i \in 1..Len(Split(generations, ",")),
            j \in 1..Len(Split(generations, ","))}

\* (start_gen, end_gen) as text (main.rs:135-142): the two sides of the first
\* "-", or one element of the comma-separated list, taken twice.  The set
\* holds every pair the random choice can produce.
GenBounds(generations) ==
    IF SplitOnce(generations, "-") # <<>>
    THEN {SplitOnce(generations, "-")}
    ELSE {<<Split(generations, ",")[i], Split(generations, ",")[i]>> :
            i \in 1..Len(Split(generations, ","))}

\* Mutants of the filter: the upper bound forgotten; "or" for "and".
InGenRangeNoEnd(p, start_gen, end_gen) == start_gen <= p.gen
InGenRangeOr(p, start_gen, end_gen) == start_gen <= p.gen \/ end_gen >= p.gen

\* The filter of main.rs:153-156.
InGenRange(p, start_gen, end_gen) == start_gen <= p.gen /\ end_gen >= p.gen

\* pokemon_db.iter().filter(..).collect(): the records kept, in order.
RECURSIVE FilterByGen(_, _, _)
FilterByGen(pokemon_db, start_gen, end_gen) ==
    IF pokemon_db = <<>> THEN <<>>
    ELSE (IF InGenRange(Head(pokemon_db), start_gen, end_gen)
          THEN <<Head(pokemon_db)>> ELSE <<>>)
         \o FilterByGen(Tail(pokemon_db), start_gen, end_gen)

MegaForms == {"mega", "mega-x", "mega-y"}
GmaxForms == {"gmax"}
RegionalForms == {"alola", "galar", "hisui", "paldea"}

\* Mutant: no_gmax is ignored.
ExcludedNoGmax(random) ==
    (IF random.no_mega THEN MegaForms ELSE {})
      \cup (IF random.no_regional THEN RegionalForms ELSE {})

\* The forms removed by the flags of the request (main.rs:185-193).
Excluded(random) ==
    (IF random.no_mega THEN MegaForms ELSE {})
      \cup (IF random.no_gmax THEN GmaxForms ELSE {})
      \cup (IF random.no_regional THEN RegionalForms ELSE {})

\* Vec::retain: the elements of s that are not in S, in order.
RECURSIVE Retain(_, _)
Retain(s, S) ==
    IF s = <<>> THEN <<>>
    ELSE (IF Head(s) \in S THEN <<>> ELSE <<Head(s)>>) \o Retain(Tail(s), S)

\* forms (main.rs:181-193)
FormList(pokemon, random) == Retain(<<"regular">> \o pokemon.forms, Excluded(random))

\* forms.choose(..).unwrap_or(&default_form): the forms that can be chosen.
FormChoices(pokemon, random) ==
    IF FormList(pokemon, random) = <<>> THEN {"regular"}
    ELSE Range(FormList(pokemon, random))

\* rand::thread_rng().gen_bool(p), p in percent: the values it can return.
GenBool(p) == IF p = 0 THEN {FALSE} ELSE IF p = 100 THEN {TRUE} ELSE BOOLEAN

\* The cli::Name built at main.rs:236-247.
NameOfRandom(random, pokemon, form, shiny) ==
    [name |-> <<pokemon.slug>>, form |-> form, shiny |-> shiny, info |-> random.info,
     game_info |-> random.game_info, under |-> random.under,
     no_title |-> random.no_title, padding_left |-> random.padding_left,
     stats |-> random.stats, unique |-> random.unique]

-----------------------------------------------------------------------------
(* The state machine: one step is one invocation of the program (main,     *)
(* main.rs:443-465).                                                       *)

\* The variables an invocation writes.
Finish(c, r, nm, s, trk, log, o) ==
    /\ cmd' = c
    /\ req' = Some(r)
    /\ shown' = nm
    /\ sel' = s
    /\ tracker' = trk
    /\ shinyLog' = log
    /\ desc' = o.desc
    /\ out' = o.out
    /\ events' = o.events
    /\ result' = o.result
    /\ UNCHANGED <<db, config>>

Failed(err) == [result |-> err, out |-> <<>>, events |-> <<>>, desc |-> <<>>]

NoSel == [bounds |-> <<>>, range |-> <<>>, picked |-> None]

\* The rest of show_random_pokemon once a record is selected and has a name
\* (main.rs:170-252).
ShowSelected(random, s, pokemon, form, shiny) ==
    LET file == InitializeTracker(tracker)
        pokemon_name == pokemon.name[config.language]
        name == NameOfRandom(random, pokemon, form, shiny)
        log == IF shiny THEN LogShinyCapture(shinyLog, ShinyEntry(pokemon_name, form))
               ELSE shinyLog
        before == [out |-> TrackNotice(file, pokemon_name, random.unique),
                   events |-> (IF TrackEncounter(file, pokemon_name) # file
                               THEN <<"tracker">> ELSE <<>>)
                              \o (IF shiny THEN <<"shiny_log">> ELSE <<>>)]
    IN  /\ shiny => Len(shinyLog.entries) < MaxLog
        /\ \E o \in ShowPokemonByName(name, db, config.language) :
              Finish("random", random, Some(name), s,
                     TrackEncounter(file, pokemon_name), log,
                     [o EXCEPT !.out = before.out \o o.out,
                               !.events = before.events \o o.events])

\* The shiny capture logged, under the record's slug, before the name of the
\* selected record is looked up.
ShowRandomPokemonLogFirst(random) ==
    \E b \in GenBounds(random.generations) :
      LET start_gen == ParseU8(b[1])
          end_gen == ParseU8(b[2])
          pokemon == FilterByGen(db, start_gen, end_gen)
      IN  IF start_gen = ParseErr \/ end_gen = ParseErr
          THEN Finish("random", random, None, [NoSel EXCEPT !.bounds = b],
                      InitializeTracker(tracker), shinyLog,
                      Failed(InvalidGeneration(random.generations)))
          ELSE IF pokemon = <<>>
          THEN Finish("random", random, None,
                      [NoSel EXCEPT !.bounds = b, !.range = <<start_gen, end_gen>>],
                      InitializeTracker(tracker), shinyLog,
                      Failed(InvalidGeneration(random.generations)))
          ELSE \E k \in 1..Len(pokemon) :
                 LET s == [bounds |-> b, range |-> <<start_gen, end_gen>>,
                           picked |-> Some(pokemon[k])]
                 IN  IF config.language \notin DOMAIN pokemon[k].name
                     THEN /\ Len(shinyLog.entries) < MaxLog
                          /\ Finish("random", random, None, s,
                                    InitializeTracker(tracker),
                                    IF random.shiny
                                    THEN LogShinyCapture(shinyLog,
                                            ShinyEntry(<<pokemon[k].slug>>, "regular"))
                                    ELSE shinyLog,
                                    Failed(InvalidLanguage(config.language)))
                     ELSE \E form \in FormChoices(pokemon[k], random) :
                          \E trial \in GenBool(config.shiny_rate) :
                             ShowSelected(random, s, pokemon[k], form,
                                          trial \/ random.shiny)

\* show_random_pokemon(random, pokemon_db, config), after main's
\* initialize_tracker.
ShowRandomPokemon(random) ==
    \E b \in GenBounds(random.generations) :
      LET start_gen == ParseU8(b[1])
          end_gen == ParseU8(b[2])
          pokemon == FilterByGen(db, start_gen, end_gen)
      IN  IF start_gen = ParseErr \/ end_gen = ParseErr
          THEN Finish("random", random, None, [NoSel EXCEPT !.bounds = b],
                      InitializeTracker(tracker), shinyLog,
                      Failed(InvalidGeneration(random.generations)))
          ELSE IF pokemon = <<>>
          THEN Finish("random", random, None,
                      [NoSel EXCEPT !.bounds = b, !.range = <<start_gen, end_gen>>],
                      InitializeTracker(tracker), shinyLog,
                      Failed(InvalidGeneration(random.generations)))
          ELSE \E k \in 1..Len(pokemon) :
                 LET s == [bounds |-> b, range |-> <<start_gen, end_gen>>,
                           picked |-> Some(pokemon[k])]
                 IN  IF config.language \notin DOMAIN pokemon[k].name
                     THEN Finish("random", random, None, s,
                                 InitializeTracker(tracker), shinyLog,
                                 Failed(InvalidLanguage(config.language)))
                     ELSE \E form \in FormChoices(pokemon[k], random) :
                          \E trial \in GenBool(config.shiny_rate) :
                             ShowSelected(random, s, pokemon[k], form,
                                          trial \/ random.shiny)

\* kingler name ...: main's initialize_tracker, then show_pokemon_by_name.
ShowByName(name) ==
    \E o \in ShowPokemonByName(name, db, config.language) :
       Finish("name", name, Some(name), NoSel, InitializeTracker(tracker), shinyLog, o)
-----------------------------------------------------------------------------
(* Requests: what the command line can hold.                               *)

\* kingler random with clap's defaults (cli.rs:87-129), generations aside.
DefaultRandom ==
    [generations |-> <<"1", "-", "9">>, info |-> FALSE, game_info |-> "",
     shiny |-> FALSE, no_title |-> FALSE, under |-> FALSE, no_mega |-> FALSE,
     no_gmax |-> FALSE, no_regional |-> FALSE, padding_left |-> 0,
     stats |-> FALSE, unique |-> FALSE]

\* kingler name <name> with clap's defaults (cli.rs:34-70).
DefaultName ==
    [name |-> <<"mew">>, form |-> "regular", shiny |-> FALSE, info |-> FALSE,
     game_info |-> "", under |-> FALSE, no_title |-> FALSE, padding_left |-> 0,
     stats |-> FALSE, unique |-> FALSE]

FilterChars == {"1", "2", "3", "x", "-", ","}

\* Generation filters: every string of up to MaxFilterLen characters, and a
\* few longer ones (a list of three, two dashes, leading zeros, a sign).
Filters ==
    SeqUpTo(FilterChars, MaxFilterLen)
      \cup {<<"1", ",", "2", ",", "3">>, <<"3", ",", "x", ",", "1">>,
            <<"1", "-", "2", "-", "3">>, <<"0", "1", "-", "0", "3">>,
            <<"0", "-", "x", "x", "x">>, <<"+", "1", "-", "+", "2">>,
            <<"1", "-", "9">>, <<"0", "-", "2", "5", "5">>, <<"1", "-", "2", "5", "6">>}

Languages == {"en", "fr", "xx"}
Paddings == 0..MaxPadding
GameNames == {"", "red", "zzz"}
Slugs == {Pool[i].slug : i \in 1..Len(Pool)}

\* The names a request may carry: every slug, every slug followed by "-" and
\* the name of a form, and a name of no record.
RequestedNames ==
    {<<s>> : s \in Slugs}
      \cup {<<Pool[i].slug, "-", f>> : i \in 1..Len(Pool), f \in {"mega", "gmax", "alola"}}
      \cup {<<"zzz">>}

\* Requests of the selection: every filter with the other options at their
\* defaults, and every combination of the exclusion flags.
SelectRequests ==
    {[DefaultRandom EXCEPT !.generations = g] : g \in Filters}
      \cup {[DefaultRandom EXCEPT !.generations = g, !.no_mega = m,
                                  !.no_gmax = x, !.no_regional = r] :
              g \in {<<"1", "-", "3">>, <<"1", ",", "3">>},
              m \in BOOLEAN, x \in BOOLEAN, r \in BOOLEAN}

\* Requests of the display: every combination of the display options.
ShowNameRequests ==
    {[DefaultName EXCEPT !.name = n, !.form = f, !.info = i, !.game_info = g,
                         !.under = u, !.no_title = t, !.padding_left = p,
                         !.stats = st] :
        n \in RequestedNames, f \in {"regular", "mega"}, i \in BOOLEAN,
        g \in GameNames, u \in BOOLEAN, t \in BOOLEAN, p \in Paddings,
        st \in BOOLEAN}

ShowRandomRequests ==
    {[DefaultRandom EXCEPT !.generations = g, !.info = i, !.game_info = gi,
                           !.under = u, !.no_title = t, !.stats = st] :
        g \in {<<"1", "-", "3">>, <<"2">>}, i \in BOOLEAN, gi \in GameNames,
        u \in BOOLEAN, t \in BOOLEAN, st \in BOOLEAN}

\* Requests of the runs of several invocations.
RunRandomRequests ==
    {[DefaultRandom EXCEPT !.generations = g, !.shiny = sh, !.unique = u] :
        g \in {<<"1", "-", "2">>, <<"2", ",", "x">>, <<"3", "-", "1">>},
        sh \in BOOLEAN, u \in BOOLEAN}

RunNameRequests ==
    {[DefaultName EXCEPT !.name = n, !.form = f, !.shiny = sh, !.no_title = t] :
        n \in {<<"mew">>, <<"zzz">>}, f \in {"regular", "mega"},
        sh \in BOOLEAN, t \in BOOLEAN}

-----------------------------------------------------------------------------
(* Specifications.                                                         *)

\* Before the first invocation: nothing was requested or printed.
Fresh ==
    /\ cmd = "none"
    /\ req = None
    /\ shown = None
    /\ sel = NoSel
    /\ desc = <<>>
    /\ out = <<>>
    /\ events = <<>>
    /\ result = Ok

\* Runs of any number of invocations over one dataset, from a machine where
\* neither file exists.
Init ==
    /\ db = <<Mew, Natu, Gengar>>
    /\ config \in [language : {"en", "fr"}, shiny_rate : {50}]
    /\ tracker = NoFile
    /\ shinyLog = NoFile
    /\ Fresh

RandomCmd == \E random \in RunRandomRequests : ShowRandomPokemon(random)

NameCmd == \E name \in RunNameRequests : ShowByName(name)

Next == RandomCmd \/ NameCmd

Spec == Init /\ [][Next]_vars

\* One invocation of the selection, over every dataset and every filter.
InitSelect ==
    /\ db \in Datasets
    /\ config \in [language : {"en", "fr"}, shiny_rate : {0}]
    /\ tracker \in {NoFile, File(<<Str_Mew>>)}
    /\ shinyLog = NoFile
    /\ Fresh

SelectCmd == cmd = "none" /\ \E random \in SelectRequests : ShowRandomPokemon(random)

NextSelect == SelectCmd

SpecSelect == InitSelect /\ [][NextSelect]_vars

\* One invocation of the display, over every combination of display options.
InitShow ==
    /\ db = Pool
    /\ config \in [language : Languages, shiny_rate : {0}]
    /\ tracker = NoFile
    /\ shinyLog = NoFile
    /\ Fresh

ShowNameCmd == cmd = "none" /\ \E name \in ShowNameRequests : ShowByName(name)

ShowRandomCmd == cmd = "none" /\ \E random \in ShowRandomRequests : ShowRandomPokemon(random)

NextShow == ShowNameCmd \/ ShowRandomCmd

SpecShow == InitShow /\ [][NextShow]_vars
\* The print routines of ascii.rs on their own: the art, the description
\* lines and the padding are drawn at the start, one routine is applied.
ArtTexts == SeqUpTo({"#", "\n"}, MaxArtLen)

\* desc_lines is always the result of lines(): no line holds a "\n".
DescLineSeqs == SeqUpTo({<<>>, <<"a">>, <<"b", "c">>}, MaxDesc)

InitDraw ==
    /\ db = <<>>
    /\ config \in [language : {"en", "fr"}, shiny_rate : {0}]
    /\ tracker = NoFile
    /\ shinyLog = NoFile
    /\ cmd = "none"
    /\ req \in {Some(r) : r \in [art : ArtTexts, desc_lines : DescLineSeqs,
                                 padding_left : Paddings]}
    /\ shown = None
    /\ sel = NoSel
    /\ desc = <<>>
    /\ out = <<>>
    /\ events = <<>>
    /\ result = Ok

Printed(c, rows) ==
    /\ cmd = "none"
    /\ cmd' = c
    /\ out' = rows
    /\ desc' = req[1].desc_lines
    /\ UNCHANGED <<db, config, tracker, shinyLog, req, shown, sel, events, result>>

DrawCmd ==
    Printed("draw", DrawPokemonArt(req[1].art, req[1].desc_lines,
                                   req[1].padding_left, config.language))

DrawUnderCmd ==
    Printed("under", DrawPokemonArtUnder(req[1].art, req[1].desc_lines,
                                         req[1].padding_left, config.language))

PrintCmd == Printed("print", PrintAsciiArt(req[1].art, req[1].padding_left))

NextDraw == DrawCmd \/ DrawUnderCmd \/ PrintCmd

SpecDraw == InitDraw /\ [][NextDraw]_vars

\* display_pokemon_stats on its own: the stat map is drawn at the start.
StatKeys == {"hp", "attack", "defense", "special-attack", "special-defense", "speed"}
StatNumbers == {0, 45, 100000}

\* Option<HashMap<String, u32>>: None, or a map over some of the six names.
StatMaps == {None} \cup {Some(f) : f \in UNION {[K -> StatNumbers] : K \in SUBSET StatKeys}}

InitStats ==
    /\ db = <<>>
    /\ config \in [language : {"en"}, shiny_rate : {0}]
    /\ tracker = NoFile
    /\ shinyLog = NoFile
    /\ cmd = "none"
    /\ req \in {Some([stats |-> m]) : m \in StatMaps}
    /\ shown = None
    /\ sel = NoSel
    /\ desc = <<>>
    /\ out = <<>>
    /\ events = <<>>
    /\ result = Ok

StatsCmd ==
    /\ cmd = "none"
    /\ cmd' = "stats"
    /\ out' = DisplayPokemonStats(req[1])
    /\ UNCHANGED <<db, config, tracker, shinyLog, req, shown, sel, desc, events, result>>

NextStats == StatsCmd

SpecStats == InitStats /\ [][NextStats]_vars

\* log_shiny_capture and load_shiny_log on their own: calls in any order on
\* a log that starts absent or with zero bytes.  req holds the entries the
\* calls were given so far, shown what the last load_shiny_log returned.
LogEntries ==
    {ShinyEntry(n, f) : n \in {Str_Mew, Str_Natu, Str_Gengar, Str_Absol},
                        f \in {"regular", "mega"}}

InitLog ==
    /\ db = <<>>
    /\ config \in [language : {"en"}, shiny_rate : {0}]
    /\ tracker = NoFile
    /\ shinyLog \in {NoFile, ZeroBytes}
    /\ cmd = "none"
    /\ req = Some(<<>>)
    /\ shown = None
    /\ sel = NoSel
    /\ desc = <<>>
    /\ out = <<>>
    /\ events = <<>>
    /\ result = Ok

LogCmd ==
    \E entry \in LogEntries :
        /\ Len(req[1]) < MaxLog
        /\ shinyLog' = LogShinyCapture(shinyLog, entry)
        /\ req' = Some(Append(req[1], entry))
        /\ cmd' = "log"
        /\ shown' = None
        /\ UNCHANGED <<db, config, tracker, sel, desc, out, events, result>>

LoadCmd ==
    /\ cmd' = "load"
    /\ shown' = LoadShinyLog(shinyLog)
    /\ UNCHANGED <<db, config, tracker, shinyLog, req, sel, desc, out, events, result>>

NextLog == LogCmd \/ LoadCmd

SpecLog == InitLog /\ [][NextLog]_vars

-----------------------------------------------------------------------------
(* Properties of the selection (SpecSelect).                               *)

\* The generation filter of the last random invocation.
Generations == req[1].generations

\* The filter "a-b" written with decimal numbers.
DashFilter(a, b) == Decimal(a) \o <<"-">> \o Decimal(b)

\* C1: for a filter "a-b" with 1 <= a <= b <= 9, a record that random
\* selection selects has a <= generation <= b, and it is the record shown.
C1_RangeFilterRespected ==
    (cmd = "random" /\ sel.picked # None) =>
        \A a \in 1..9 : \A b \in a..9 :
            Generations = DashFilter(a, b) =>
                /\ a <= sel.picked[1].gen
                /\ sel.picked[1].gen <= b
                /\ shown # None => shown[1].name = <<sel.picked[1].slug>>

\* The filter "1-1" over a dataset that also holds a record of generation 2:
\* a record of generation 1 is selected and shown.
C1_Witness ==
    /\ cmd = "random"
    /\ Generations = DashFilter(1, 1)
    /\ \E i \in 1..Len(db) : db[i].gen = 2
    /\ sel.picked # None
    /\ sel.picked[1].gen = 1
    /\ result = Ok

\* The values of the elements of a comma-separated list that parse.
ListValues(generations) ==
    {ParseU8(Split(generations, ",")[i]) : i \in 1..Len(Split(generations, ","))}
      \ {ParseErr}

\* C2: for a filter without a dash, the range of random selection is
\* start = end = g for one element g of the comma-separated list, and a
\* selected record has the generation g.
C2_ListCollapsesToOneGeneration ==
    (cmd = "random" /\ "-" \notin Range(Generations)) =>
        /\ sel.bounds[1] = sel.bounds[2]
        /\ sel.bounds[1] \in Range(Split(Generations, ","))
        /\ sel.range # <<>> =>
              /\ sel.range[1] = sel.range[2]
              /\ sel.range[1] \in ListValues(Generations)
        /\ sel.picked # None => sel.picked[1].gen \in ListValues(Generations)

\* The list "1,3" over a dataset with records of generations 1, 2 and 3: the
\* range is 3..3 and a record of generation 3 is shown.
C2_Witness ==
    /\ cmd = "random"
    /\ Generations = <<"1", ",", "3">>
    /\ \E i \in 1..Len(db) : db[i].gen = 2
    /\ \E i \in 1..Len(db) : db[i].gen = 1
    /\ sel.range = <<3, 3>>
    /\ sel.picked # None
    /\ sel.picked[1].gen = 3
    /\ result = Ok

\* A filter with a bound (dash range) or an element (comma list) that does
\* not parse as an integer.
Malformed(generations) ==
    IF "-" \in Range(generations)
    THEN \/ ParseU8(SplitOnce(generations, "-")[1]) = ParseErr
         \/ ParseU8(SplitOnce(generations, "-")[2]) = ParseErr
    ELSE \E i \in 1..Len(Split(generations, ",")) :
            ParseU8(Split(generations, ",")[i]) = ParseErr

\* C3: a malformed generation filter always yields InvalidGeneration
\* carrying the original filter string, whatever the random choices are.
C3_MalformedAlwaysInvalidGeneration ==
    (cmd = "random" /\ Malformed(Generations)) =>
        result = InvalidGeneration(Generations)

\* C4: when the bounds parse but no record of the dataset has a generation
\* in [start, end] (start > end included), random selection fails with
\* InvalidGeneration carrying the original filter and selects no record.
C4_EmptyRangeInvalidGeneration ==
    (/\ cmd = "random"
     /\ sel.range # <<>>
     /\ ~\E i \in 1..Len(db) :
            sel.range[1] <= db[i].gen /\ db[i].gen <= sel.range[2]) =>
        /\ result = InvalidGeneration(Generations)
        /\ sel.picked = None
        /\ shown = None
        /\ out = <<>>

\* The filter "3-1" over a dataset with a record of generation 2.
C4_Witness ==
    /\ cmd = "random"
    /\ sel.range = <<3, 1>>
    /\ \E i \in 1..Len(db) : db[i].gen = 2
    /\ result = InvalidGeneration(<<"3", "-", "1">>)

\* C5: the form chosen by random selection is "regular" or a form of the
\* selected record, and never one that a flag of the request excludes
\* (no_mega: mega, mega-x, mega-y; no_gmax: gmax; no_regional: alola, galar,
\* hisui, paldea); so a flag never makes a form selectable.
C5_FormChoiceRespectsExclusions ==
    (cmd = "random" /\ shown # None) =>
        /\ shown[1].form \in {"regular"} \cup Range(sel.picked[1].forms)
        /\ req[1].no_mega => shown[1].form \notin {"mega", "mega-x", "mega-y"}
        /\ req[1].no_gmax => shown[1].form # "gmax"
        /\ req[1].no_regional =>
              shown[1].form \notin {"alola", "galar", "hisui", "paldea"}

\* no_mega and no_regional set, a record with the forms mega and gmax is
\* selected and shown in its form gmax.
C5_Witness ==
    /\ cmd = "random"
    /\ req[1].no_mega /\ req[1].no_regional /\ ~req[1].no_gmax
    /\ sel.picked # None
    /\ "mega" \in Range(sel.picked[1].forms)
    /\ shown # None
    /\ shown[1].form = "gmax"
    /\ result = Ok
-----------------------------------------------------------------------------
(* Properties of the description (SpecShow).                               *)

\* The record an invocation resolved: the one random selection selected, or
\* the first of the dataset with the requested slug; None when there is none.
Resolved ==
    IF cmd = "random" THEN sel.picked
    ELSE IF cmd = "name" /\ \E i \in 1..Len(db) : <<db[i].slug>> = req[1].name
    THEN Some(db[CHOOSE i \in 1..Len(db) :
                    /\ <<db[i].slug>> = req[1].name
                    /\ \A j \in 1..(i - 1) : <<db[j].slug>> # req[1].name])
    ELSE None

\* The descriptions of the resolved record in the configured language.
Variants == Resolved[1].desc[config.language]

\* C6: with info set and a variant requested by game_info that the
\* configured language does not have, while it has at least one other, the
\* description lines used are the lines of some existing variant of that
\* language, never the empty sequence.
C6_MissingVariantFallsBack ==
    (/\ cmd \in {"random", "name"}
     /\ result = Ok
     /\ req[1].info
     /\ req[1].game_info # ""
     /\ config.language \in DOMAIN Resolved[1].desc
     /\ req[1].game_info \notin DOMAIN Variants
     /\ DOMAIN Variants # {}) =>
        /\ \E g \in DOMAIN Variants : desc = Lines(Variants[g])
        /\ desc # <<>>
        /\ \E i \in 1..Len(out) : \E k \in 1..Len(out[i]) :
              /\ out[i][k] = StyleOn
              /\ SubSeq(out[i], k + 1, k + Len(desc[1])) = desc[1]

\* kingler name muk --info --game-info zzz, language en: the record has a
\* description for "blue" only, and that one is used.
C6_Witness ==
    /\ cmd = "name"
    /\ req[1].name = <<"muk">>
    /\ req[1].info
    /\ req[1].game_info = "zzz"
    /\ config.language = "en"
    /\ result = Ok
    /\ desc = <<<<"h">>>>

\* The art file of the invocation exists.
ArtExists == shown # None /\ AssetGet(ArtPath(shown[1])) # None

\* The resolved record has a name in the configured language.
HasName == config.language \in DOMAIN Resolved[1].name

\* The rows of the art are in the output, in order, from row `first` on.
ArtPrinted(first) ==
    LET lines == Lines(AssetGet(ArtPath(shown[1]))[1])
    IN  /\ Len(out) >= first - 1 + Len(lines)
        /\ \A i \in 1..Len(lines) :
              SubSeq(out[first - 1 + i], 1, Len(lines[i])) = lines[i]

\* C7 as stated: when the resolved record has no descriptions entry for
\* the configured language, the description is empty, no error is raised and
\* the invocation completes successfully (here: whenever its art file
\* exists).
C7_AbsentLanguageAlwaysSucceeds ==
    (/\ cmd \in {"random", "name"}
     /\ Resolved # None
     /\ config.language \notin DOMAIN Resolved[1].desc
     /\ cmd = "name" => AssetGet(ArtPath(req[1])) # None) =>
        /\ desc = <<>>
        /\ result = Ok

\* C7, amended: when the resolved record has no descriptions entry for the
\* configured language, the description is the empty sequence, with or
\* without a variant requested, and picking it raises no error: the
\* invocation prints the art and ends successfully exactly when the art file
\* exists and the record has a name in that language or, in a by-name
\* invocation, the title is suppressed; otherwise it ends with
\* InvalidLanguage (no name) or panics (no art file), and prints nothing.
C7_AbsentLanguageEmptyDescription ==
    (/\ cmd \in {"random", "name"}
     /\ Resolved # None
     /\ config.language \notin DOMAIN Resolved[1].desc) =>
        /\ desc = <<>>
        /\ result.kind \in {"Ok", "InvalidLanguage", "Panic"}
        /\ result = Ok <=>
              /\ ArtExists
              /\ HasName \/ (cmd = "name" /\ req[1].no_title)
        /\ result = Ok => ArtPrinted(IF req[1].no_title THEN 1 ELSE 2)
        /\ result.kind = "InvalidLanguage" =>
              /\ ~HasName
              /\ result = InvalidLanguage(config.language)
              /\ out = <<>>
        /\ result.kind = "Panic" => cmd = "name" /\ ~ArtExists /\ out = <<>>

\* kingler name muk --info --game-info zzz, language fr: the record has a
\* French name and no French description; the title, the art and the notice
\* are printed and the invocation succeeds.
C7_Witness ==
    /\ cmd = "name"
    /\ req[1].name = <<"muk">>
    /\ req[1].info /\ ~req[1].no_title /\ ~req[1].stats
    /\ req[1].game_info = "zzz"
    /\ config.language = "fr"
    /\ result = Ok
    /\ desc = <<>>
    /\ Len(out) = 3

-----------------------------------------------------------------------------
(* Properties of the print routines (SpecDraw).                            *)

\* The art lines, the description lines and the padding given to a routine.
ArtLines == Lines(req[1].art)
GivenDesc == req[1].desc_lines

\* A row carries description text: styled text follows the separator.
HasDesc(row) == StyleOn \in Range(row)

\* The row carries the description line d, styled.
Carries(row, d) ==
    \E k \in 1..Len(row) :
        /\ row[k] = StyleOn
        /\ \A j \in 1..(k - 1) : row[j] # StyleOn
        /\ SubSeq(row, k + 1, k + Len(d)) = d
        /\ \A j \in (k + 1 + Len(d))..(Len(row) - 1) : row[j] = " "
        /\ row[Len(row)] = StyleOff

\* The row is the text s and then only spaces.
Padded(row, s) ==
    /\ Len(row) >= Len(s)
    /\ SubSeq(row, 1, Len(s)) = s
    /\ \A j \in (Len(s) + 1)..Len(row) : row[j] = " "

\* C8: beside the art, with a description, the first description line is on
\* row floor(N/2) - 1 (not below 0) for N >= 3 art lines and on row
\* floor(N/2) for 1 <= N < 3; no row before it carries description text.
\* Rows are counted from 0; out[r + 1] is row r.
C8_FirstDescriptionRow ==
    (cmd = "draw" /\ GivenDesc # <<>> /\ Len(ArtLines) >= 1) =>
        LET n == Len(ArtLines)
            r == IF n >= 3
                 THEN (IF (n \div 2) - 1 < 0 THEN 0 ELSE (n \div 2) - 1)
                 ELSE n \div 2
        IN  /\ r + 1 <= Len(out)
            /\ Carries(out[r + 1], GivenDesc[1])
            /\ \A i \in 1..r : ~HasDesc(out[i])

\* Five art lines: the description starts on row 1, row 0 has none.
C8_Witness ==
    /\ cmd = "draw"
    /\ Len(ArtLines) = 5
    /\ Len(GivenDesc) >= 2
    /\ ~HasDesc(out[1])
    /\ Carries(out[2], GivenDesc[1])

NoticeText == "No descriptions available for language: "

\* C9: beside or under the art, an empty description gives exactly one
\* notice row, after all art rows: padding_left spaces, then "No descriptions
\* available for language: " and the language code, nothing else; with a
\* description there is no notice row.
C9_NoticeRow ==
    (cmd \in {"draw", "under"}) =>
        IF GivenDesc = <<>>
        THEN /\ Len(out) = Len(ArtLines) + 1
             /\ \A i \in 1..Len(ArtLines) : NoticeText \notin Range(out[i])
             /\ out[Len(out)] = Spaces(req[1].padding_left)
                                  \o <<NoticeText, config.language>>
        ELSE \A i \in 1..Len(out) : NoticeText \notin Range(out[i])

\* C10: under the art, with N art lines and D >= 1 description lines, the
\* output is N + D rows: the art lines in order, then the description lines
\* in order.
C10_UnderKeepsEveryLine ==
    (cmd = "under" /\ GivenDesc # <<>>) =>
        /\ Len(out) = Len(ArtLines) + Len(GivenDesc)
        /\ \A i \in 1..Len(ArtLines) :
              Padded(out[i], ArtLines[i]) /\ ~HasDesc(out[i])
        /\ \A j \in 1..Len(GivenDesc) :
              /\ out[Len(ArtLines) + j][1] = StyleOn
              /\ Carries(out[Len(ArtLines) + j], GivenDesc[j])

\* Two art lines of different text and three description lines: five rows.
C10_Witness ==
    /\ cmd = "under"
    /\ Len(ArtLines) = 2
    /\ ArtLines[1] # ArtLines[2]
    /\ Len(GivenDesc) = 3
    /\ GivenDesc[1] # GivenDesc[2]
    /\ Len(out) = 5

-----------------------------------------------------------------------------
(* Properties of the stats table (SpecStats).                              *)

\* The stat map given to display_pokemon_stats.
GivenStats == req[1].stats

\* The number the table shows for a stat: its value, 0 when it is missing.
Shown(k) == IF k \in DOMAIN GivenStats[1] THEN GivenStats[1][k] ELSE 0

\* The row "label1: value1  label2: value2": each label with its colon in a
\* field of 15 columns, the first value in a field of 5.
TableRow(k1, k2) ==
    LET l1 == StatLabel(k1) \o <<":">>
        l2 == StatLabel(k2) \o <<":">>
        v1 == Decimal(Shown(k1))
    IN  l1 \o Spaces(15 - Len(l1)) \o <<" ">>
          \o v1 \o (IF Len(v1) < 5 THEN Spaces(5 - Len(v1)) ELSE <<>>) \o <<" ", " ">>
          \o l2 \o Spaces(15 - Len(l2)) \o <<" ">> \o Decimal(Shown(k2))

StatsNotice == "Stats not available for this Pokemon."

\* C11: for a stat map that is present the table has exactly 3 rows, in the
\* order (hp, speed), (attack, special-attack), (defense, special-defense),
\* each value the map's value or 0 when the key is missing; for an absent
\* stat map the notice is printed (after the line break it starts with) and
\* no table row.
C11_StatsTable ==
    (cmd = "stats") =>
        IF GivenStats # None
        THEN out = <<TableRow("hp", "speed"),
                     TableRow("attack", "special-attack"),
                     TableRow("defense", "special-defense")>>
        ELSE out = <<<<>>, <<StatsNotice>>>>

\* A map with hp and without speed: the first row shows hp and "speed: 0",
\* and no row but the first mentions hp.
C11_Witness ==
    /\ cmd = "stats"
    /\ GivenStats # None
    /\ "speed" \notin DOMAIN GivenStats[1]
    /\ "hp" \in DOMAIN GivenStats[1]
    /\ GivenStats[1]["hp"] = 100000
    /\ Len(out) = 3
    /\ out[1][Len(out[1])] = "0"
    /\ out[1][Len(out[1]) - 1] = " "

-----------------------------------------------------------------------------
(* Properties of the lookup by name (SpecShow).                            *)

\* The name the by-name invocation was asked for.
Requested == req[1].name

\* Some record of the dataset has exactly the requested name as its slug.
InDataset == \E i \in 1..Len(db) : <<db[i].slug>> = Requested

\* C12: show_pokemon_by_name of a name that is no record's slug fails with
\* InvalidPokemon carrying the requested name as it was given, having printed
\* nothing and looked up no art.
C12_UnknownNameInvalidPokemon ==
    (cmd = "name" /\ ~InDataset) =>
        /\ result = [kind |-> "InvalidPokemon", arg |-> Requested]
        /\ out = <<>>
        /\ events = <<>>
        /\ desc = <<>>

\* A name of several pieces that is no slug, asked with every display option
\* on: the error carries all of it.
C12_Witness ==
    /\ cmd = "name"
    /\ Requested = <<"natu", "-", "gmax">>
    /\ req[1].info /\ req[1].stats /\ ~req[1].no_title
    /\ result.kind = "InvalidPokemon"
    /\ Len(result.arg) = 3
    /\ out = <<>>

\* The requested name is a slug of the dataset, "-", and a form of that
\* slug's record.
SlugWithForm ==
    \E i \in 1..Len(db) : \E f \in Range(db[i].forms) :
        Requested = <<db[i].slug, "-", f>>

\* C13 as stated: a requested name made of a dataset slug, "-" and a form
\* of that record resolves to the slug's record: it does not fail with
\* InvalidPokemon.
C13_FormSuffixStripped ==
    (cmd = "name" /\ SlugWithForm) => result.kind # "InvalidPokemon"

\* C13, amended: the record is looked up by the whole requested name and
\* nothing is stripped: a requested name made of a dataset slug, "-" and a
\* form of that record, being no record's slug itself, fails with
\* InvalidPokemon carrying that name, and an invocation that does not fail
\* so was asked for a name that is some record's slug.
C13_WholeNameLookedUp ==
    (cmd = "name") =>
        /\ (SlugWithForm /\ ~InDataset) =>
              (result = [kind |-> "InvalidPokemon", arg |-> Requested] /\ out = <<>>)
        /\ result.kind # "InvalidPokemon" => InDataset

\* kingler name gengar-mega: gengar is a slug and mega one of its forms.
C13_Witness ==
    /\ cmd = "name"
    /\ Requested = <<"gengar", "-", "mega">>
    /\ SlugWithForm
    /\ req[1].form = "regular"
    /\ result.kind = "InvalidPokemon"
    /\ result.arg = <<"gengar", "-", "mega">>

\* C14 as stated: show_pokemon_by_name of a record that has no name in the configured
\* language fails with InvalidLanguage carrying that language, whatever the
\* display options (title shown or suppressed, info, under, stats). Stated
\* for the requests whose art file exists, a missing one being a panic.
C14_MissingNameInvalidLanguage ==
    (cmd = "name" /\ InDataset /\ ~HasName /\ ArtExists) =>
        result = InvalidLanguage(config.language)

\* C14, amended: show_pokemon_by_name of a record that has no name in the
\* configured language, with the art file present, fails with
\* InvalidLanguage carrying that language when the title is shown, whatever
\* info, under and stats are, and has then printed nothing; with the title
\* suppressed the name is not looked up and the invocation succeeds.  With
\* the art file missing it panics before the name is looked up.
C14_MissingNameUnlessNoTitle ==
    (cmd = "name" /\ InDataset /\ ~HasName) =>
        IF ~ArtExists THEN result.kind = "Panic" /\ out = <<>>
        ELSE IF req[1].no_title THEN result = Ok /\ ArtPrinted(1)
        ELSE /\ result = [kind |-> "InvalidLanguage", arg |-> <<config.language>>]
             /\ out = <<>>

\* kingler name natu --info --under --stats, language fr: natu has an English
\* name only.
C14_Witness ==
    /\ cmd = "name"
    /\ Requested = <<"natu">>
    /\ config.language = "fr"
    /\ req[1].info /\ req[1].under /\ req[1].stats /\ ~req[1].no_title
    /\ result.kind = "InvalidLanguage"
    /\ result.arg = <<"fr">>

-----------------------------------------------------------------------------
(* Properties of the shiny log (SpecLog).                                  *)

\* The entries the log_shiny_capture calls were given, in call order.
Appended == req[1]

-----------------------------------------------------------------------------
(* Properties of the files over several invocations (Spec).                *)

\* An invocation of this step logged a shiny capture.
Captured == "shiny_log" \in Range(events)

\* The name is among the tracker's encounters.
Tracked(file, n) == \E i \in 1..Len(file.entries) : file.entries[i] = n

-----------------------------------------------------------------------------
(* Properties of the order of effects (SpecShow).                          *)

\* C17 as stated: in a by-name invocation with the title shown, the title
\* row is printed before the art file is looked up: an invocation that ends
\* because the art file is missing has printed the title row.
C17_TitleBeforeArtLookup ==
    (cmd = "name" /\ ~req[1].no_title /\ result.kind = "Panic") =>
        /\ Len(out) >= 1
        /\ "title" \in Range(events)

\* C17, amended: in a by-name invocation the art file is looked up before
\* the title row is printed, with the title shown or suppressed: an
\* invocation that ends because the art file is missing has printed nothing,
\* and an invocation that prints the title has read the art file before.
C17_ArtLookupBeforeTitle ==
    (cmd = "name") =>
        /\ result.kind = "Panic" => (out = <<>> /\ events = <<"asset">>)
        /\ "title" \in Range(events) =>
              /\ ~req[1].no_title
              /\ Len(events) >= 2 /\ events[1] = "asset" /\ events[2] = "title"
              /\ Len(out) >= 1

\* kingler name mew --form mega, language en: mew has an English name and no
\* mega art; the invocation panics with the title shown and nothing printed.
C17_Witness ==
    /\ cmd = "name"
    /\ Requested = <<"mew">>
    /\ req[1].form = "mega"
    /\ ~req[1].no_title
    /\ config.language = "en"
    /\ result = [kind |-> "Panic", arg |-> <<"mew", "-", "mega">>]
    /\ out = <<>>

\* No name is twice among the tracker's encounters.
NoNameTwice ==
    \A i, j \in 1..Len(tracker.entries) :
        tracker.entries[i] = tracker.entries[j] => i = j

\* The name a random invocation tracks: the selected record's name in the
\* configured language.
TrackedName == sel.picked[1].name[config.language]

\* C18: over any run of invocations from a tracker with no encounters, no
\* name is twice in the encounters; a random invocation that selects a name
\* the tracker holds leaves the tracker as it was, one that selects a name
\* it does not hold appends that name and nothing else, and the list never
\* shrinks.
C18_TrackerHoldsEachNameOnce ==
    /\ []NoNameTwice
    /\ [][(cmd' = "random" /\ sel'.picked # None
             /\ config.language \in DOMAIN sel'.picked[1].name) =>
            IF Tracked(tracker, TrackedName')
            THEN tracker.exists /\ tracker' = tracker
            ELSE tracker'.entries = Append(tracker.entries, TrackedName')]_vars
    /\ [][/\ Len(tracker'.entries) >= Len(tracker.entries)
          /\ SubSeq(tracker'.entries, 1, Len(tracker.entries)) = tracker.entries]_vars

\* kingler random --unique selecting a name the tracker holds, beside another:
\* the notice is printed and the tracker is not written.
C18_Witness ==
    /\ cmd = "random"
    /\ req[1].unique
    /\ sel.picked # None
    /\ config.language \in DOMAIN sel.picked[1].name
    /\ Len(tracker.entries) = 2
    /\ Tracked(tracker, TrackedName)
    /\ "tracker" \notin Range(events)
    /\ Len(out) >= 1
    /\ out[1] = TrackedName \o <<" has already been encountered.">>

-----------------------------------------------------------------------------
(* Properties of the rows beside the art (SpecDraw).                       *)

\* The row the description starts on, for n art lines.
StartRow(n) ==
    IF n >= 3 THEN (IF (n \div 2) - 1 < 0 THEN 0 ELSE (n \div 2) - 1) ELSE n \div 2

\* C19: beside the art, with N art lines, start row s and D description
\* lines, the output has N rows (N + 1 when D = 0), and the first
\* min(D, N - s) description lines are printed, in order, on the rows s,
\* s + 1, ...; no other row carries description text, so the description
\* lines from index N - s on are not printed, and with N = 0 none is.
\* Rows are counted from 0; out[r + 1] is row r.
C19_DescriptionRowsBeside ==
    (cmd = "draw") =>
        LET n == Len(ArtLines)
            d == Len(GivenDesc)
            s == StartRow(n)
            k == IF d < n - s THEN d ELSE n - s
        IN  /\ Len(out) = (IF d = 0 THEN n + 1 ELSE n)
            /\ \A r \in 0..(n - 1) :
                  IF r >= s /\ r - s < k
                  THEN Carries(out[r + 1], GivenDesc[r - s + 1])
                  ELSE ~HasDesc(out[r + 1])
            /\ Cardinality({r \in 1..Len(out) : HasDesc(out[r])}) = k
            /\ n = 0 => \A r \in 1..Len(out) : ~HasDesc(out[r])

\* Two art lines and three description lines: the start row is 1, only the
\* first description line is printed, and the output has two rows.
C19_Witness ==
    /\ cmd = "draw"
    /\ Len(ArtLines) = 2
    /\ Len(GivenDesc) = 3
    /\ Len(out) = 2
    /\ ~HasDesc(out[1])
    /\ Carries(out[2], GivenDesc[1])

\* The position of the first e in the sequence, 0 when it is not there.
Position(seq, e) ==
    IF e \in Range(seq) THEN CHOOSE i \in 1..Len(seq) :
                                /\ seq[i] = e
                                /\ \A j \in 1..(i - 1) : seq[j] # e
    ELSE 0

\* The entries of the shiny log, none for a log that does not exist.
LogEntriesOf(file) == IF file.exists /\ file.json THEN file.entries ELSE <<>>

\* C20: a random invocation that gets to decide on shiny (it selected a
\* record with a name) appends exactly one entry to the shiny log, with the
\* selected record's name and the chosen form, when shiny is true, and none
\* when it is false; shiny is true whenever it was requested; the entry is
\* written before the art is read and before anything of the title, the art
\* or the description is printed.  A random invocation that fails before,
\* and a by-name invocation, with or without the shiny flag, leave the shiny
\* log as it was.
C20_ShinyLoggedOnceBeforeArt ==
    [][/\ (cmd' = "random" /\ shown' # None) =>
            /\ req'[1].shiny => shown'[1].shiny
            /\ Captured' <=> shown'[1].shiny
            /\ IF shown'[1].shiny
               THEN /\ shinyLog'.exists /\ shinyLog'.json
                    /\ Len(shinyLog'.entries) = Len(LogEntriesOf(shinyLog)) + 1
                    /\ SubSeq(shinyLog'.entries, 1, Len(LogEntriesOf(shinyLog)))
                          = LogEntriesOf(shinyLog)
                    /\ LET e == shinyLog'.entries[Len(shinyLog'.entries)]
                       IN  /\ e.pokemon_name = TrackedName'
                           /\ e.form = shown'[1].form
                    /\ Position(events', "shiny_log") < Position(events', "asset")
                    /\ \A x \in {"title", "art", "stats"} :
                          x \in Range(events') =>
                              Position(events', "shiny_log") < Position(events', x)
               ELSE shinyLog' = shinyLog
       /\ (cmd' = "random" /\ shown' = None) => shinyLog' = shinyLog
       /\ cmd' = "name" => shinyLog' = shinyLog]_vars

\* A random invocation without --shiny whose trial succeeded, on gengar in
\* its mega form, the second capture in the log.
C20_Witness ==
    /\ cmd = "random"
    /\ ~req[1].shiny
    /\ shown # None /\ shown[1].shiny
    /\ shown[1].name = <<"gengar">>
    /\ shown[1].form = "mega"
    /\ Len(shinyLog.entries) = 2
    /\ shinyLog.entries[2].form = "mega"
    /\ shinyLog.entries[2].pokemon_name = TrackedName
    /\ Len(out) >= 1

-----------------------------------------------------------------------------
(* Properties of a failing random invocation (Spec).                       *)

\* The invocation of this step was a random one that ended with
\* InvalidGeneration or InvalidLanguage.
RandomFailed ==
    cmd = "random" /\ result.kind \in {"InvalidGeneration", "InvalidLanguage"}

====
